---- MODULE Spec2Model ----
(***************************************************************************)
(* A model of the comparable-sales enrichment run of RealEstateAI:        *)
(*   SpitogatosFlow.expand_excel__spitogatos_comparison                    *)
(*     -> _add_spitogatos_comparison  (the batch loop over the rows)       *)
(*        -> _search_assets_for_row   (the expanding-radius search)        *)
(*           -> SpitogatosData.get_by_location (one remote call)           *)
(*        -> _save_comparison_assets  (append to the comparison workbook)  *)
(*        -> statistics, _get_valuation_for_row, the enriched_time stamp   *)
(* and, each on its own, GeopyData.rectangle_from_point and the scraping   *)
(* calls ReinvestData.scrape_all_listings / scrape_from_backup_json.       *)
(* Optional cell values are sequences: <<>> is NaN / an absent cell,       *)
(* <<v>> a cell holding v.                                                 *)
(***************************************************************************)
EXTENDS Integers, Sequences, FiniteSets, TLC

\* ------------------------------------------------------------------ bounds
\* listing IDs handed to one call of the REInvest scraper
MaxListings == 3
\* rows of the dataset read by _open_excel
MaxRows == 2
\* runs of expand_excel__spitogatos_comparison in SpecRerun, each on the
\* dataset the previous one saved
MaxRuns == 2

\* ------------------------------------------------------- program constants
\* while i < 3                       (spitogatos_flow.py:166)
max_iterations == 3
\* ... and len(assets) < 5           (spitogatos_flow.py:166)
min_comparables == 5
\* location_tolerance: float = 100   (spitogatos_flow.py:288)
default_location_tolerance == 100
\* ... if sqm_tolerance else 30     (spitogatos_flow.py:171)
fallback_min_area == 30
\* ... if sqm_tolerance else 200    (spitogatos_flow.py:173)
fallback_max_area == 200

NaN == <<>>
Some(v) == <<v>>
notna(cell) == cell # NaN

\* --------------------------------------------------------------- rationals
\* location_tolerance is a float that is multiplied and divided by 1.5; it is
\* kept as a reduced fraction <<numerator, denominator>>.
RECURSIVE GCD(_, _)
GCD(a, b) == IF b = 0 THEN a ELSE GCD(b, a % b)

Reduce(q) == LET g == GCD(q[1], q[2]) IN <<q[1] \div g, q[2] \div g>>

\* location_tolerance *= 1.5         (spitogatos_flow.py:175)
TimesGrowth(q) == Reduce(<<q[1] * 3, q[2] * 2>>)

\* location_tolerance / 1.5          (spitogatos_flow.py:178)
OverGrowth(q) == Reduce(<<q[1] * 2, q[2] * 3>>)

\* q1 <= q2 on fractions with positive denominators
RatLeq(q1, q2) == q1[1] * q2[2] <= q2[1] * q1[2]

RECURSIVE RatPow15(_, _)
RatPow15(q, n) == IF n = 0 THEN q ELSE RatPow15(TimesGrowth(q), n - 1)

\* ------------------------------------------------------------ the dataset
\* the portfolio and source the loop is hard-wired to (spitogatos_flow.py:229-230)
CurrentPortfolio == "scraping_4/1/26"
CurrentSource == "ReInvest"

\* The columns of a subject row that the run writes (spitogatos_flow.py:260-277).
SummaryFields ==
    {"comparison_average", "comparison_min", "comparison_max", "comparison_median",
     "n_assets", "spitogatos_url", "eauctions_url", "searched_radius",
     "comparison_std", "score", "revaluation", "normalized_mean"}

\* A subject row not yet enriched; 'price/sqm' is added by _prepare_df.
BaseRow ==
    [source |-> CurrentSource, Portfolio |-> CurrentPortfolio, UniqueCode |-> "u1",
     sqm |-> Some(50), price |-> Some(100000), lon |-> Some(23), lat |-> Some(37),
     level |-> Some(3), new_state |-> Some(TRUE), price_sqm |-> NaN,
     comparison_average |-> NaN, comparison_min |-> NaN, comparison_max |-> NaN,
     comparison_median |-> NaN, n_assets |-> NaN, spitogatos_url |-> NaN,
     eauctions_url |-> NaN, searched_radius |-> NaN, comparison_std |-> NaN,
     score |-> NaN, revaluation |-> NaN, normalized_mean |-> NaN,
     enriched_time |-> NaN]

\* A row enriched by an earlier run (time 0): it carries a stamp and a summary.
EnrichedRow ==
    [BaseRow EXCEPT !.enriched_time = Some(0), !.comparison_average = Some(1000),
                    !.comparison_min = Some(1000), !.comparison_max = Some(1000),
                    !.comparison_median = Some(1000), !.n_assets = Some(1),
                    !.spitogatos_url = Some("referer"), !.eauctions_url = Some("u1"),
                    !.searched_radius = Some(<<225, 1>>),
                    !.revaluation = Some(44550), !.normalized_mean = Some(675)]

\* The rows a dataset is made of.
RowKinds ==
    { BaseRow,
      [BaseRow EXCEPT !.UniqueCode = "u2"],
      [BaseRow EXCEPT !.sqm = NaN],
      [BaseRow EXCEPT !.lat = NaN],
      EnrichedRow,
      [BaseRow EXCEPT !.Portfolio = "old"],
      [BaseRow EXCEPT !.source = "dovalue"],
      [BaseRow EXCEPT !.sqm = Some(5), !.price = Some(10000)] }

Datasets == [1..MaxRows -> RowKinds]

\* f"{row['source']}:{row['Portfolio']}:{row['UniqueCode']}"  (spitogatos_flow.py:228)
KeyOf(row) == <<row.source, row.Portfolio, row.UniqueCode>>

\* _prepare_df: price and sqm coerced to numbers, 'price/sqm' = price / sqm
\* (NaN when either is NaN).
PrepareRow(row) ==
    [row EXCEPT !.price_sqm = IF notna(row.price) /\ notna(row.sqm) /\ row.sqm[1] # 0
                              THEN Some(row.price[1] \div row.sqm[1])
                              ELSE NaN]

_prepare_df(rows) == [k \in DOMAIN rows |-> PrepareRow(rows[k])]

\* ------------------------------------------------------------ the listings
\* A comparable as get_by_location builds it (spitogatos_data.py:87-90): location,
\* sqm, price and url are set; level and new_state keep their default None.
Comparable(price, sqm) ==
    [price |-> price, sqm |-> sqm, url |-> "referer", level |-> NaN, new_state |-> NaN]

OneListing == <<Comparable(50000, 50)>>
TwoListings == <<Comparable(50000, 50), Comparable(150000, 50)>>
FiveListings ==
    <<Comparable(50000, 50), Comparable(100000, 50), Comparable(150000, 50),
      Comparable(100000, 50), Comparable(100000, 50)>>
ZeroAreaListing == <<Comparable(50000, 0)>>
SamePriceListings == <<Comparable(50000, 50), Comparable(100000, 100)>>

\* What one GET of the search endpoint can come back with (spitogatos_data.py:79-99):
\* a 200 whose body parses to a list of listings, a 200 whose body does not parse,
\* another status (401, 403, 429, 5xx ...) with a body that is a block page or
\* that would parse to listings, or an exception out of requests.
Responses ==
    { [status |-> "200", parses |-> TRUE, data |-> d, raises |-> "none"] :
          d \in {<<>>, OneListing, TwoListings, FiveListings, ZeroAreaListing,
                 SamePriceListings} }
    \cup { [status |-> "200", parses |-> FALSE, data |-> <<>>, raises |-> "none"],
           [status |-> "403", parses |-> FALSE, data |-> <<>>, raises |-> "none"],
           [status |-> "403", parses |-> TRUE, data |-> FiveListings, raises |-> "none"],
           [status |-> "401", parses |-> FALSE, data |-> <<>>, raises |-> "none"],
           [status |-> "none", parses |-> FALSE, data |-> <<>>,
            raises |-> "ConnectionAbortedError"],
           [status |-> "none", parses |-> FALSE, data |-> <<>>,
            raises |-> "RequestException"] }

\* A response that is no list of listings: the marketplace refused the call
\* (lines 93-95 and 98-99).
IsDenial(resp) == resp.raises = "none" /\ (resp.status # "200" \/ ~resp.parses)

\* get_by_location with `finally: return results`: an unparsable body comes back
\* as the empty list built before the parse
get_by_location_ReturnsResults(resp) ==
    IF resp.status = "200" THEN [tag |-> "list", assets |-> resp.data]
    ELSE [tag |-> "None", assets |-> <<>>]

\* get_by_location parsing the body whatever the status
get_by_location_ParsesAnyStatus(resp) ==
    IF resp.parses THEN [tag |-> "list", assets |-> resp.data]
    ELSE IF resp.status = "200" THEN [tag |-> "-1", assets |-> <<>>]
    ELSE [tag |-> "None", assets |-> <<>>]

\* The value get_by_location hands back for a response that did not raise:
\* the list, -1 (is_bot) or None (the else branch has no return).
get_by_location(resp) ==
    IF resp.status = "200"
    THEN IF resp.parses THEN [tag |-> "list", assets |-> resp.data]
                        ELSE [tag |-> "-1", assets |-> <<>>]
    ELSE [tag |-> "None", assets |-> <<>>]

\* -------------------------------------------------------------- statistics
RECURSIVE SumSeq(_)
SumSeq(xs) == IF xs = <<>> THEN 0 ELSE Head(xs) + SumSeq(Tail(xs))

SeqMin(xs) == CHOOSE m \in {xs[k] : k \in DOMAIN xs} : \A k \in DOMAIN xs : m <= xs[k]
SeqMax(xs) == CHOOSE m \in {xs[k] : k \in DOMAIN xs} : \A k \in DOMAIN xs : m >= xs[k]

\* the k-th smallest element of xs (k from 1)
Ranked(xs, k) ==
    CHOOSE v \in {xs[j] : j \in DOMAIN xs} :
        /\ Cardinality({j \in DOMAIN xs : xs[j] < v}) < k
        /\ Cardinality({j \in DOMAIN xs : xs[j] <= v}) >= k

\* largest r with r * r <= n, by Newton's iteration from above
RECURSIVE ISqrtFrom(_, _)
ISqrtFrom(n, r) ==
    IF r * r <= n THEN r ELSE ISqrtFrom(n, (r + n \div r) \div 2)

\* (the start is kept below 2^15.5 so that its square stays a machine integer)
ISqrt(n) == IF n = 0 THEN 0 ELSE ISqrtFrom(n, IF n > 46340 THEN 46340 ELSE n)

\* [asset.price / asset.sqm for asset in assets]     (spitogatos_flow.py:258)
\* defined when no asset has sqm = 0
\* the total prices taken for the prices per square metre
assets_price_sqm_TotalPrice(assets) == [k \in DOMAIN assets |-> assets[k].price]

\* assets_price_sqm = [asset.price / asset.sqm for asset in assets]   (line 258)
assets_price_sqm(assets) == [k \in DOMAIN assets |-> assets[k].price \div assets[k].sqm]

\* statistics.mean; the listings of the model have whole-number means
Mean(xs) == SumSeq(xs) \div Len(xs)

\* statistics.median: the middle value, or the mean of the two middle values
Median(xs) ==
    LET n == Len(xs) IN
    IF n % 2 = 1 THEN Ranked(xs, (n + 1) \div 2)
    ELSE (Ranked(xs, n \div 2) + Ranked(xs, n \div 2 + 1)) \div 2

\* statistics.stdev: the square root of the sample variance (n - 1 in the
\* denominator), here rounded down to a whole number
Stdev(xs) ==
    LET m == Mean(xs)
        ssd == SumSeq([k \in DOMAIN xs |-> (xs[k] - m) * (xs[k] - m)])
    IN ISqrt(ssd \div (Len(xs) - 1))

\* --------------------------------------------------------------- valuation
\* floor_rank, in percent   (spitogatos_flow.py:42-51); .get(level, 0.25)
floor_rank_get(level) ==
    IF level = Some(-1) THEN -40
    ELSE IF level = Some(0) THEN -10
    ELSE IF level = Some(1) THEN 0
    ELSE IF level = Some(2) THEN 5
    ELSE IF level = Some(3) THEN 10
    ELSE IF level = Some(4) THEN 15
    ELSE IF level = Some(5) THEN 20
    ELSE 25

\* renew_rank, in percent   (spitogatos_flow.py:52-55); .get(new_state, 0)
renew_rank_get(new_state) == IF new_state = Some(TRUE) THEN 20 ELSE 0

\* floor_level_dict.get(row['level']): utils/consts/greek_tems.py is not part of
\* the sources; the dataset's level labels are taken to be the level numbers.
floor_level_dict_get(level) == level

\* the adjustment without the 0.9 of line 59
revaluated_price_meter_NoHaircut(asset) ==
    ((asset.price \div asset.sqm) * (100 - floor_rank_get(asset.level))
        * (100 - renew_rank_get(asset.new_state))) \div 10000

\* asset.revaluated_price_meter   (spitogatos_flow.py:57-63)
revaluated_price_meter(asset) ==
    ((asset.price \div asset.sqm) * 90 * (100 - floor_rank_get(asset.level))
        * (100 - renew_rank_get(asset.new_state))) \div 1000000

\* the valuation taking the row's premiums off, as it does for the comparables
_get_valuation_for_row_SameDirection(row, assets) ==
    LET normalized_mean == Mean([k \in DOMAIN assets |-> revaluated_price_meter(assets[k])])
        row_new_price ==
            (normalized_mean * row.sqm[1]
                * (100 - floor_rank_get(floor_level_dict_get(row.level)))
                * (100 - renew_rank_get(row.new_state))) \div 10000
    IN <<row_new_price, normalized_mean>>

\* _get_valuation_for_row (spitogatos_flow.py:64-69): <<row_new_price, normalized_mean>>
_get_valuation_for_row(row, assets) ==
    LET normalized_mean == Mean([k \in DOMAIN assets |-> revaluated_price_meter(assets[k])])
        row_new_price ==
            (normalized_mean * row.sqm[1]
                * (100 + floor_rank_get(floor_level_dict_get(row.level)))
                * (100 + renew_rank_get(row.new_state))) \div 10000
    IN <<row_new_price, normalized_mean>>

\* ------------------------------------------------------------------- state
VARIABLES
    marketplace,            \* the responses the marketplace may give in this behaviour
    excel,                  \* the rows of the workbook at excel_path
    has_valuation_columns,  \* whether the workbook has the 'level' and 'new_state' columns
                            \* (the level and new_state cells of a row are read only then)
    must_columns,           \* must_columns of expand_excel__spitogatos_comparison
    sqm_tolerance,          \* sqm_tolerance of expand_excel__spitogatos_comparison
    store,                  \* the rows of the comparison workbook (the Comparison Store)
    store_before,           \* the store as it was when the current run started
    run_before,             \* the run before the current one: its exception and the keys
                            \* of the rows it searched
    persisted,              \* the dataset written by the last df.to_excel, NaN before any
    n_persists,             \* df.to_excel calls of the current run
    run,                    \* the number of the current run, also its timestamp
    pc,                     \* where expand_excel__spitogatos_comparison stands
    df,                     \* the DataFrame of the run
    checked_rows,           \* checked_rows of _add_spitogatos_comparison
    index,                  \* the row df.iterrows() is at
    i,                      \* i of _search_assets_for_row
    location_tolerance,     \* location_tolerance of _search_assets_for_row
    assets,                 \* assets of _search_assets_for_row: the last value returned
    asset_comparison,       \* what _search_assets_for_row returned: the comparable set ...
    actual_location_tolerance,  \* ... and the radius
    min_area,               \* min_area of the last get_by_location call, NaN before any
    max_area,               \* max_area of the last get_by_location call, NaN before any
    response,               \* the response to the last GET (spitogatos_data.py:79)
    exc,                    \* the exception raised in the run, "none" if none
    outcome,                \* how the run ended for its caller: "returned" or "raised"
    \* history of the current run, read by the properties only
    remote_calls,           \* GETs sent by get_by_location
    radii,                  \* the radius of each get_by_location call of the current search
    blocked,                \* Some(remote_calls) at the call that returned -1 or None
    skipped,                \* the rows the loop skipped
    searched,               \* the rows _search_assets_for_row was called for
    appended,               \* the rows whose comparable set was written to the store
    stamped                 \* the rows that were given enriched_time

\* GeopyData.rectangle_from_point, called on its own
VARIABLES
    start_point,            \* start_point of rectangle_from_point
    radius_meters,          \* radius_meters of rectangle_from_point
    rectangle               \* the Rectangle it returned, NaN before the call

\* ReinvestData.scrape_all_listings and ReinvestData.scrape_from_backup_json
VARIABLES
    entry_point,            \* which of the two functions was called
    scraper_pc,             \* where it stands
    listing_ids,            \* listing_ids: the IDs to scrape
    listing_idx,            \* the position of the loop over listing_ids
    assets_data,            \* assets_data: the results of scrape_listing
    scraped_ids,            \* scraped_ids
    output_path,            \* output_path, NaN for None
    files,                  \* the workbooks of the excel_db folder, NaN for no file
    new_df                  \* the rows the last save_to_excel call built from its arguments

fileVars ==
    <<marketplace, excel, has_valuation_columns, must_columns, sqm_tolerance,
      store, store_before, run_before, persisted, n_persists, run>>
loopVars == <<df, checked_rows, index>>
searchVars == <<i, location_tolerance, assets, radii>>
resultVars == <<asset_comparison, actual_location_tolerance>>
callVars == <<min_area, max_area, response>>
historyVars == <<remote_calls, blocked, skipped, searched, appended, stamped>>
flowVars == <<fileVars, pc, loopVars, searchVars, resultVars, callVars, exc, outcome, historyVars>>
geopyVars == <<start_point, radius_meters, rectangle>>
reinvestVars ==
    <<entry_point, scraper_pc, listing_ids, listing_idx, assets_data, scraped_ids,
      output_path, files, new_df>>
otherVars == <<geopyVars, reinvestVars>>
vars == <<flowVars, otherVars>>

\* the default workbook of save_to_excel and the first alternative it tries
\* (reinvest_data.py:1111, 1246)
reinvest_assets == "reinvest_assets.xlsx"
reinvest_assets_1 == "reinvest_assets-1.xlsx"

\* rectangle_from_point has not been called
GeopyIdle ==
    /\ start_point = [lat |-> 0, lon |-> 0]
    /\ radius_meters = 0
    /\ rectangle = NaN

\* neither scraping function has been called
ReinvestIdle ==
    /\ entry_point = "none"
    /\ scraper_pc = "idle"
    /\ listing_ids = <<>>
    /\ listing_idx = 1
    /\ assets_data = <<>>
    /\ scraped_ids = <<>>
    /\ output_path = NaN
    /\ files = [f \in {reinvest_assets, reinvest_assets_1} |-> NaN]
    /\ new_df = <<>>

NoComparison == [main_asset |-> "", compared_assets |-> <<>>]
NoResult == [tag |-> "list", assets |-> <<>>]
NoResponse == [status |-> "none", parses |-> FALSE, data |-> <<>>, raises |-> "none"]

\* The state before a run: the workbook holds a dataset, nothing has run yet.
\* the first run has no run before it
NoRunBefore == [exc |-> "none", searched |-> {}]

InitWith(rows, responses, column_lists, tolerances) ==
    /\ marketplace = responses
    /\ excel = rows
    /\ has_valuation_columns \in BOOLEAN
    /\ must_columns \in column_lists
    /\ sqm_tolerance \in tolerances
    /\ store = <<>>
    /\ store_before = <<>>
    /\ run_before = NoRunBefore
    /\ persisted = NaN
    /\ n_persists = 0
    /\ run = 1
    /\ pc = "start"
    /\ df = <<>>
    /\ checked_rows = {}
    /\ index = 1
    /\ i = 0
    /\ location_tolerance = <<default_location_tolerance, 1>>
    /\ assets = NoResult
    /\ radii = <<>>
    /\ asset_comparison = NoComparison
    /\ actual_location_tolerance = <<0, 1>>
    /\ min_area = NaN
    /\ max_area = NaN
    /\ response = NoResponse
    /\ exc = "none"
    /\ outcome = "running"
    /\ remote_calls = 0
    /\ blocked = NaN
    /\ skipped = {}
    /\ searched = {}
    /\ appended = {}
    /\ stamped = {}

\* the values of must_columns the program is run with   (spitogatos_flow.py:320-321)
columns_no_valuation == {"sqm", "price", "lon", "lat", "UniqueCode", "source"}
columns_valuation == columns_no_valuation \cup {"level", "new_state"}

\* sqm_tolerance: None (the default), 0 or a positive number of square metres
Tolerances == {NaN, Some(0), Some(10)}

Init ==
    /\ \E rows \in Datasets :
        InitWith(rows, Responses, {columns_no_valuation, columns_valuation}, Tolerances)
    /\ GeopyIdle
    /\ ReinvestIdle

\* ----------------------------------------------------------------- actions
\* df.columns as far as must_columns can ask for them
WorkbookColumns(with_valuation) ==
    IF with_valuation THEN columns_valuation ELSE columns_no_valuation

\* the must_columns whose assert fails   (spitogatos_flow.py:83-84)
MissingColumns(must, columns) == must \ columns

\* expand_excel__spitogatos_comparison, lines 290-291: _open_excel, _prepare_df;
\* _add_spitogatos_comparison then starts with checked_rows = [].
\* _open_excel (lines 83-84) raises AssertionError for a must_column the workbook
\* lacks; the call is made before the try block, so the run ends there, raising.
Open ==
    /\ pc = "start"
    /\ IF MissingColumns(must_columns, WorkbookColumns(has_valuation_columns)) # {}
       THEN /\ pc' = "raised"
            /\ exc' = "AssertionError"
            /\ outcome' = "raised"
            /\ UNCHANGED loopVars
       ELSE /\ df' = _prepare_df(excel)
            /\ checked_rows' = {}
            /\ index' = 1
            /\ pc' = "for"
            /\ UNCHANGED <<exc, outcome>>
    /\ UNCHANGED <<fileVars, searchVars, resultVars, callVars, historyVars>>
    /\ UNCHANGED otherVars

\* the skip condition without its enriched_time test
ShouldSkip_IgnoresStamp(row, checked) ==
    \/ KeyOf(row) \in checked
    \/ row.Portfolio # CurrentPortfolio
    \/ row.source # CurrentSource

\* The condition of the `continue` at the head of the loop (spitogatos_flow.py:228-231).
ShouldSkip(row, checked) ==
    \/ KeyOf(row) \in checked
    \/ row.Portfolio # CurrentPortfolio
    \/ row.source # CurrentSource
    \/ notna(row.enriched_time)

\* the loop without checked_rows.append
CheckedAfter_NoAppend(checked, key) == checked

\* checked_rows.append(key)          (spitogatos_flow.py:243)
CheckedAfter(checked, key) == checked \cup {key}

\* pd.notna(row["sqm"]) and pd.notna(row["lon"]) and pd.notna(row["lat"])  (line 244)
HasAreaAndCoordinates(row) == notna(row.sqm) /\ notna(row.lon) /\ notna(row.lat)

\* lines 228-240: the row is skipped
Skip ==
    /\ pc = "for"
    /\ index <= Len(df)
    /\ ShouldSkip(df[index], checked_rows)
    /\ skipped' = skipped \cup {index}
    /\ index' = index + 1
    /\ UNCHANGED <<fileVars, pc, df, checked_rows, searchVars, resultVars, callVars, exc, outcome,
                   remote_calls, blocked, searched, appended, stamped>>
    /\ UNCHANGED otherVars

\* lines 241-248: the row is handled; with area and coordinates
\* _search_assets_for_row is entered (lines 163-165), without them the row goes
\* straight to line 280
Handle ==
    /\ pc = "for"
    /\ index <= Len(df)
    /\ ~ShouldSkip(df[index], checked_rows)
    /\ checked_rows' = CheckedAfter(checked_rows, KeyOf(df[index]))
    /\ IF HasAreaAndCoordinates(df[index])
       THEN /\ pc' = "search"
            /\ i' = 0
            /\ assets' = NoResult
            /\ location_tolerance' = <<default_location_tolerance, 1>>
            /\ radii' = <<>>
            /\ searched' = searched \cup {index}
       ELSE /\ pc' = "stamp"
            /\ UNCHANGED <<searchVars, searched>>
    /\ UNCHANGED <<fileVars, df, index, resultVars, callVars, exc, outcome,
                   remote_calls, blocked, skipped, appended, stamped>>
    /\ UNCHANGED otherVars

\* the loop test letting i reach 3
LoopContinues_OneMore(n_iterations, n_assets) ==
    n_iterations <= max_iterations /\ n_assets < min_comparables

\* while i < 3 and len(assets) < 5   (spitogatos_flow.py:166)
LoopContinues(n_iterations, n_assets) ==
    n_iterations < max_iterations /\ n_assets < min_comparables

\* the loop test taking -1 and None for an empty list
SearchNext_DenialAsEmpty(result, n_iterations) ==
    IF LoopContinues(n_iterations, Len(result.assets)) THEN "search" ELSE "save"

\* What follows one get_by_location call that returned `result`, i already
\* incremented: the loop test of line 166 and after it line 177. len() of -1 or of
\* None raises TypeError; when i has reached 3 the loop test stops at i < 3 and
\* AssetComparison(compared_assets=-1 or None) raises a ValidationError.
SearchNext(result, n_iterations) ==
    IF result.tag # "list" THEN "except"
    ELSE IF LoopContinues(n_iterations, Len(result.assets)) THEN "search"
    ELSE "save"

\* `if sqm_tolerance`: None and 0 are false
Truthy(tolerance) == tolerance # NaN /\ tolerance[1] # 0

\* min_area and max_area of the get_by_location call   (spitogatos_flow.py:170-174)
MinArea(sqm, tolerance) ==
    IF Truthy(tolerance)
    THEN (IF sqm - tolerance[1] > 0 THEN sqm - tolerance[1] ELSE 0)
    ELSE fallback_min_area

MaxArea(sqm, tolerance) ==
    IF Truthy(tolerance) THEN sqm + tolerance[1] ELSE fallback_max_area

\* the search returning location_tolerance as the loop left it
ReturnedRadius_NextUnused(tolerance) == tolerance

\* the radius _search_assets_for_row returns   (spitogatos_flow.py:178)
ReturnedRadius(tolerance) == OverGrowth(tolerance)

\* One iteration of the loop of _search_assets_for_row (lines 166-176) with the
\* get_by_location call it makes, and, when the loop ends, lines 177-178.
\* An exception out of requests leaves the search at once: ConnectionAbortedError
\* is caught at line 249 (return df), any other propagates to line 301.
SearchIteration ==
    /\ pc = "search"
    /\ \E resp \in marketplace :
        /\ remote_calls' = remote_calls + 1
        /\ radii' = Append(radii, location_tolerance)
        /\ min_area' = Some(MinArea(df[index].sqm[1], sqm_tolerance))
        /\ max_area' = Some(MaxArea(df[index].sqm[1], sqm_tolerance))
        /\ response' = resp
        /\ IF resp.raises # "none"
           THEN /\ IF resp.raises = "ConnectionAbortedError"
                   THEN pc' = "finally" /\ exc' = exc
                   ELSE pc' = "except" /\ exc' = resp.raises
                /\ UNCHANGED <<i, location_tolerance, assets, resultVars, blocked>>
           ELSE LET result == get_by_location(resp)
                    next == SearchNext(result, i + 1)
                IN /\ assets' = result
                   /\ location_tolerance' = TimesGrowth(location_tolerance)
                   /\ i' = i + 1
                   /\ blocked' = IF IsDenial(resp) /\ blocked = NaN
                                 THEN Some(remote_calls + 1) ELSE blocked
                   /\ pc' = next
                   /\ exc' = IF next # "except" THEN exc
                             ELSE IF i + 1 < max_iterations THEN "TypeError"
                             ELSE "ValidationError"
                   /\ IF next = "save"
                      THEN /\ asset_comparison' =
                                [main_asset |-> df[index].UniqueCode,
                                 compared_assets |-> result.assets]
                           /\ actual_location_tolerance' =
                                ReturnedRadius(TimesGrowth(location_tolerance))
                      ELSE UNCHANGED resultVars
    /\ UNCHANGED <<fileVars, loopVars, outcome, skipped, searched, appended, stamped>>
    /\ UNCHANGED otherVars

\* The rows _save_comparison_assets appends: one per comparable  (lines 204-215)
StoreRows(comparison, source, now) ==
    [k \in DOMAIN comparison.compared_assets |->
        [source |-> source, main_asset |-> comparison.main_asset,
         price |-> comparison.compared_assets[k].price,
         sqm |-> comparison.compared_assets[k].sqm,
         fetched_time |-> now]]

\* What the store workbook holds after pd.ExcelWriter(excel_path, mode="w") has
\* opened it and the write of `combined` went as `io` says (lines 217-218): the
\* file is truncated when it is opened, and its content is only there again once
\* the whole of `combined` has been written.
StoreAfterWrite(old, combined, io) ==
    IF io = "saved" THEN combined
    ELSE IF io = "write_interrupted" THEN <<>>
    ELSE old

\* _save_comparison_assets (lines 180-219). The workbook is read, the new rows are
\* concatenated and the whole is written back. A workbook that cannot be read
\* (other than FileNotFoundError) makes it return without saving (lines 200-202);
\* a workbook that cannot be opened for writing raises out of pd.ExcelWriter, and
\* so does a write that fails after the workbook was opened.
SaveComparisonAssets ==
    /\ pc = "save"
    /\ \E io \in {"saved", "cannot_open", "cannot_write", "write_interrupted"} :
        /\ store' = StoreAfterWrite(store,
                        store \o StoreRows(asset_comparison, df[index].source, run), io)
        /\ appended' = IF io = "saved" THEN appended \cup {index} ELSE appended
        /\ pc' = IF io \in {"cannot_write", "write_interrupted"} THEN "except" ELSE "stats"
        /\ exc' = IF io \in {"cannot_write", "write_interrupted"} THEN "OSError" ELSE exc
    /\ UNCHANGED <<marketplace, excel, has_valuation_columns, must_columns,
                   sqm_tolerance, store_before, run_before, persisted,
                   n_persists, run, loopVars, searchVars, resultVars, callVars, outcome,
                   remote_calls, blocked, skipped, searched, stamped>>
    /\ UNCHANGED otherVars

\* The summary cells written at lines 258-273 for a non-empty comparable set.
WithStatistics(row, comps, radius) ==
    LET xs == assets_price_sqm(comps)
        mean == Mean(xs)
        std == Stdev(xs)
        r1 == [row EXCEPT !.comparison_average = Some(mean),
                          !.comparison_min = Some(SeqMin(xs)),
                          !.comparison_max = Some(SeqMax(xs)),
                          !.comparison_median = Some(Median(xs)),
                          !.n_assets = Some(Len(comps)),
                          !.spitogatos_url = Some(comps[1].url),
                          !.eauctions_url = Some(row.UniqueCode),
                          !.searched_radius = Some(radius)]
        r2 == IF Len(comps) > 1 THEN [r1 EXCEPT !.comparison_std = Some(std)] ELSE r1
    IN IF Len(comps) > 1 /\ std # 0 /\ notna(row.price_sqm)
       THEN [r2 EXCEPT !.score = Some(<<row.price_sqm[1] - mean, std>>)]
       ELSE r2

\* the statistics computed without the test of line 257
HasAssets_Always(comps) == TRUE

\* `if assets:`   (spitogatos_flow.py:257)
HasAssets(comps) == comps # <<>>

\* lines 255-273: nothing for an empty set; asset.price / asset.sqm raises
\* ZeroDivisionError for a listing of area 0, before anything is written
\* (statistics.mean of no data raises StatisticsError).
Statistics ==
    /\ pc = "stats"
    /\ LET comps == asset_comparison.compared_assets IN
       IF ~HasAssets(comps)
       THEN pc' = "stamp" /\ UNCHANGED <<df, exc>>
       ELSE IF \E k \in DOMAIN comps : comps[k].sqm = 0
       THEN pc' = "except" /\ exc' = "ZeroDivisionError" /\ UNCHANGED df
       ELSE IF comps = <<>>
       THEN pc' = "except" /\ exc' = "StatisticsError" /\ UNCHANGED df
       ELSE /\ df' = [df EXCEPT ![index] =
                        WithStatistics(df[index], comps, actual_location_tolerance)]
            /\ pc' = "valuation"
            /\ UNCHANGED exc
    /\ UNCHANGED <<fileVars, checked_rows, index, searchVars, resultVars, callVars, outcome,
                   historyVars>>
    /\ UNCHANGED otherVars

\* lines 275-277: _get_valuation_for_row asserts that the row has 'level', 'sqm'
\* and 'new_state' (lines 35-37) and then values the row; asset.price / asset.sqm
\* (line 57) raises ZeroDivisionError for an asset of area 0, statistics.mean
\* (line 64) raises StatisticsError for no assets.
Valuation ==
    /\ pc = "valuation"
    /\ IF ~has_valuation_columns
       THEN pc' = "except" /\ exc' = "AssertionError" /\ UNCHANGED df
       ELSE IF \E k \in DOMAIN asset_comparison.compared_assets :
                   asset_comparison.compared_assets[k].sqm = 0
       THEN pc' = "except" /\ exc' = "ZeroDivisionError" /\ UNCHANGED df
       ELSE IF asset_comparison.compared_assets = <<>>
       THEN pc' = "except" /\ exc' = "StatisticsError" /\ UNCHANGED df
       ELSE LET v == _get_valuation_for_row(df[index], asset_comparison.compared_assets)
            IN /\ df' = [df EXCEPT ![index].revaluation = Some(v[1]),
                                   ![index].normalized_mean = Some(v[2])]
               /\ pc' = "stamp"
               /\ UNCHANGED exc
    /\ UNCHANGED <<fileVars, checked_rows, index, searchVars, resultVars, callVars, outcome,
                   historyVars>>
    /\ UNCHANGED otherVars

\* line 280, and the loop goes to the next row
Stamp ==
    /\ pc = "stamp"
    /\ df' = [df EXCEPT ![index].enriched_time = Some(run)]
    /\ stamped' = stamped \cup {index}
    /\ index' = index + 1
    /\ pc' = "for"
    /\ UNCHANGED <<fileVars, checked_rows, searchVars, resultVars, callVars, exc, outcome,
                   remote_calls, blocked, skipped, searched, appended>>
    /\ UNCHANGED otherVars

\* lines 282-283: the loop is over, _add_spitogatos_comparison returns df
LoopExit ==
    /\ pc = "for"
    /\ index > Len(df)
    /\ pc' = "finally"
    /\ UNCHANGED <<fileVars, loopVars, searchVars, resultVars, callVars, exc, outcome, historyVars>>
    /\ UNCHANGED otherVars

\* lines 301-302: except Exception: logger.error(...); nothing is re-raised
Except ==
    /\ pc = "except"
    /\ pc' = "finally"
    /\ UNCHANGED <<fileVars, loopVars, searchVars, resultVars, callVars, exc, outcome, historyVars>>
    /\ UNCHANGED otherVars

\* How the call ends once the finally block has run: the except clause of line 301
\* has handled every Exception, so the caller sees a normal return.
OutcomeOf(raised) == "returned"

\* lines 303-307: finally: df.to_excel(...); the function returns
Finally ==
    /\ pc = "finally"
    /\ persisted' = Some(df)
    /\ n_persists' = n_persists + 1
    /\ outcome' = OutcomeOf(exc)
    /\ pc' = "done"
    /\ UNCHANGED <<marketplace, excel, has_valuation_columns, must_columns,
                   sqm_tolerance, store, store_before, run_before, run,
                   loopVars,
                   searchVars, resultVars, callVars, exc, historyVars>>
    /\ UNCHANGED otherVars

\* A further run of expand_excel__spitogatos_comparison, on the workbook the
\* previous run saved.
Rerun ==
    /\ pc = "done"
    /\ run < MaxRuns
    /\ excel' = persisted[1]
    /\ store_before' = store
    /\ run_before' = [exc |-> exc, searched |-> {KeyOf(df[j]) : j \in searched}]
    /\ run' = run + 1
    /\ n_persists' = 0
    /\ pc' = "start"
    /\ df' = <<>>
    /\ checked_rows' = {}
    /\ index' = 1
    /\ exc' = "none"
    /\ outcome' = "running"
    /\ remote_calls' = 0
    /\ blocked' = NaN
    /\ skipped' = {}
    /\ searched' = {}
    /\ appended' = {}
    /\ stamped' = {}
    /\ UNCHANGED <<marketplace, has_valuation_columns, must_columns, sqm_tolerance,
                   store, persisted, searchVars,
                   resultVars, callVars>>
    /\ UNCHANGED otherVars

RunStep ==
    \/ Open
    \/ Skip
    \/ Handle
    \/ SearchIteration
    \/ SaveComparisonAssets
    \/ Statistics
    \/ Valuation
    \/ Stamp
    \/ LoopExit
    \/ Except
    \/ Finally

Next == RunStep

\* one run over any dataset
Spec == Init /\ [][Next]_vars

NextRerun == RunStep \/ Rerun

\* The datasets and responses of the behaviours with several runs: rows to
\* enrich, with and without an area, rows already enriched, two keys; a
\* marketplace that answers with no, one or five listings or refuses.
RerunRowKinds ==
    { BaseRow, [BaseRow EXCEPT !.UniqueCode = "u2"], [BaseRow EXCEPT !.sqm = NaN],
      EnrichedRow }

RerunResponses ==
    { r \in Responses :
        /\ r.raises = "none"
        /\ r.status = "200"
        /\ r.data \in {<<>>, OneListing, FiveListings} }

InitRerun ==
    /\ \E rows \in [1..MaxRows -> RerunRowKinds] :
        InitWith(rows, RerunResponses, {columns_no_valuation}, {NaN})
    /\ GeopyIdle
    /\ ReinvestIdle

\* up to MaxRuns runs, each on the dataset the previous one saved
SpecRerun == InitRerun /\ [][NextRerun]_vars

\* ---------------------------------------------- the valuation on its own
\* _get_valuation_for_row is a static method of two arguments, a row and a list
\* of assets; here it is applied to rows and assets of every floor level and
\* renovation state (model/asset_model.py: level: Optional[int], new_state:
\* Optional[bool]).
Levels == {Some(l) : l \in -2..7} \cup {NaN}
NewStates == {Some(TRUE), Some(FALSE), NaN}

Asset(price, sqm, level, new_state) ==
    [Comparable(price, sqm) EXCEPT !.level = level, !.new_state = new_state]

\* assets of unit price 1000
ValuationAssets == {Asset(50000, 50, l, n) : l \in Levels, n \in NewStates}

\* no asset, one asset, or an asset with one or two more
ValuationAssetLists ==
    {<<>>}
    \cup {<<a>> : a \in ValuationAssets}
    \cup {<<a, Asset(50000, 50, Some(1), Some(FALSE))>> : a \in ValuationAssets}
    \cup {<<Asset(50000, 50, Some(1), NaN), Asset(50000, 50, Some(3), Some(TRUE)),
             Asset(50000, 50, Some(1), Some(TRUE))>>,
           <<Asset(50000, 50, Some(1), NaN), Asset(50000, 0, Some(1), NaN)>>}

ValuationRows == {[BaseRow EXCEPT !.level = l, !.new_state = n] : l \in Levels, n \in NewStates}

\* the loop of _add_spitogatos_comparison stands at `position` for the only row
\* of a dataset, with the comparable set comps in hand
InitForRow(position, row, comps) ==
    /\ marketplace = {}
    /\ excel = <<row>>
    /\ has_valuation_columns \in BOOLEAN
    /\ must_columns = columns_no_valuation
    /\ sqm_tolerance = NaN
    /\ store = <<>>
    /\ store_before = <<>>
    /\ run_before = NoRunBefore
    /\ persisted = NaN
    /\ n_persists = 0
    /\ run = 1
    /\ pc = position
    /\ df = _prepare_df(<<row>>)
    /\ checked_rows = {KeyOf(row)}
    /\ index = 1
    /\ i = 0
    /\ location_tolerance = <<default_location_tolerance, 1>>
    /\ assets = NoResult
    /\ radii = <<>>
    /\ asset_comparison = [main_asset |-> row.UniqueCode, compared_assets |-> comps]
    /\ actual_location_tolerance = <<default_location_tolerance, 1>>
    /\ min_area = NaN
    /\ max_area = NaN
    /\ response = NoResponse
    /\ exc = "none"
    /\ outcome = "running"
    /\ remote_calls = 0
    /\ blocked = NaN
    /\ skipped = {}
    /\ searched = {}
    /\ appended = {}
    /\ stamped = {}
    /\ GeopyIdle
    /\ ReinvestIdle

\* _get_valuation_for_row is about to be called for the only row of a dataset
InitValuation ==
    \E row \in ValuationRows, comps \in ValuationAssetLists :
        InitForRow("valuation", row, comps)

NextValuation == Valuation

\* one call of _get_valuation_for_row
SpecValuation == InitValuation /\ [][NextValuation]_vars

\* the floor and the renovation state a listing may carry
Features == {<<NaN, NaN>>, <<Some(0), Some(FALSE)>>, <<Some(3), Some(TRUE)>>}

\* comparable sets of unit prices 100, 200 and 300, of every mix of features
StatisticsAssetLists ==
    {<<>>}
    \cup {<<Asset(5000, 50, f[1], f[2])>> : f \in Features}
    \cup {<<Asset(5000, 50, f[1], f[2]), Asset(30000, 100, g[1], g[2])>> :
              f \in Features, g \in Features}
    \cup {<<Asset(5000, 50, f[1], f[2]), Asset(20000, 100, g[1], g[2]),
             Asset(15000, 50, h[1], h[2])>> :
              f \in Features, g \in Features, h \in Features}

\* the statistics of lines 257-273 are about to be computed for the only row
\* of a dataset
InitStatistics ==
    \E comps \in StatisticsAssetLists : InitForRow("stats", BaseRow, comps)

NextStatistics == Statistics \/ Valuation

\* the statistics and the valuation of one row
SpecStatistics == InitStatistics /\ [][NextStatistics]_vars

\* --------------------------------------------- rectangle_from_point on its own
\* Positions are whole metres north (lat) and east (lon) of a reference point,
\* on the plane tangent to the earth there; over the few hundred metres of a
\* search radius the geodesic of geopy and the straight line of the plane
\* agree to well under a metre.

\* the flow is not running
FlowIdle ==
    /\ InitWith(<<>>, {}, {columns_no_valuation}, {NaN})
    /\ has_valuation_columns

\* geopy.distance.distance(meters).destination(point, bearing), for the four
\* diagonal bearings: cos 45 = sin 45 = 0.7071, rounded down to whole metres
destination(point, bearing, meters) ==
    LET step == (meters * 7071) \div 10000
        north == IF bearing \in {45, 315} THEN step ELSE 0 - step
        east == IF bearing \in {45, 135} THEN step ELSE 0 - step
    IN [lat |-> point.lat + north, lon |-> point.lon + east]

\* the corners taken the other way round
rectangle_from_point_CornersSwapped(point, radius) ==
    LET diagonal_meters == ISqrt(2 * radius * radius)
        left_up == destination(point, 225, diagonal_meters)
        down_bottom == destination(point, 45, diagonal_meters)
    IN [min_lat |-> down_bottom.lat, min_lon |-> down_bottom.lon,
        max_lat |-> left_up.lat, max_lon |-> left_up.lon]

\* geopy_data.py:17-24; math.sqrt is rounded down to whole metres
rectangle_from_point(point, radius) ==
    LET diagonal_meters == ISqrt(2 * radius * radius)
        left_up == destination(point, 45, diagonal_meters)
        down_bottom == destination(point, 225, diagonal_meters)
    IN [min_lat |-> down_bottom.lat, min_lon |-> down_bottom.lon,
        max_lat |-> left_up.lat, max_lon |-> left_up.lon]

\* centres on both sides of the reference point
Points == {[lat |-> a, lon |-> b] : a \in {-1000, 0, 1000}, b \in {-1000, 0, 1000}}

\* the radii of a search (100, 150, 225), a small and a large one, zero and
\* negative ones
Radii == {-100, -1, 0, 1, 100, 150, 225, 5000}

InitRectangle ==
    /\ start_point \in Points
    /\ radius_meters \in Radii
    /\ rectangle = NaN
    /\ FlowIdle
    /\ ReinvestIdle

\* the call: no statement of the function tests radius_meters or raises
RectangleFromPoint ==
    /\ rectangle = NaN
    /\ rectangle' = Some(rectangle_from_point(start_point, radius_meters))
    /\ UNCHANGED <<start_point, radius_meters, flowVars, reinvestVars>>

NextRectangle == RectangleFromPoint

\* one call of rectangle_from_point
SpecRectangle == InitRectangle /\ [][NextRectangle]_vars

\* ------------------------------------------------------ the REInvest scraper
\* A scraped asset is known by the listing it was scraped from (its url ends in
\* /properties/<listing id>, reinvest_data.py:398); a row of the workbook has
\* the id column save_to_excel gave it and the listing its asset came from.

\* the listing IDs 1..n, in the order the listing pages give them
ListingIdLists == {[k \in 1..n |-> k] : n \in 0..MaxListings}

\* the workbook before the call: none, an empty one, or one of an earlier
\* scrape that holds listing 1 or a listing no longer on the site
ExistingFiles ==
    {NaN, Some(<<>>), Some(<<[id |-> 1, listing |-> 1]>>), Some(<<[id |-> 0, listing |-> 0]>>)}

\* lines 1126-1166: one row per asset; its id is listing_ids[idx] when there is
\* such an entry, else the number in the asset's url
NewRows(data, ids) ==
    [k \in DOMAIN data |->
        [id |-> IF ids # <<>> /\ k <= Len(ids) THEN ids[k] ELSE data[k].listing,
         listing |-> data[k].listing]]

\* drop_duplicates(subset=['id'], keep='last')   (line 1219)
RECURSIVE DropDuplicates(_)
DropDuplicates(rows) ==
    IF rows = <<>> THEN <<>>
    ELSE LET rest == Tail(rows) IN
         IF \E j \in DOMAIN rest : rest[j].id = rows[1].id
         THEN DropDuplicates(rest)
         ELSE <<rows[1]>> \o DropDuplicates(rest)

\* lines 1178-1227: the rows to write, from what was read of the existing file
\* (NaN: no file, or a file that could not be read) and the new rows
CombinedRows(existing, rows) ==
    IF existing # NaN /\ existing[1] # <<>>
    THEN IF rows # <<>> THEN DropDuplicates(existing[1] \o rows) ELSE existing[1]
    ELSE rows

\* lines 1108-1113, 1084-1089: the default path when output_path is None
PathOf(path) == IF path = NaN THEN reinvest_assets ELSE path[1]

InitReinvest ==
    /\ entry_point \in {"scrape_all_listings", "scrape_from_backup_json"}
    /\ scraper_pc = "start"
    /\ listing_ids \in ListingIdLists
    /\ listing_idx = 1
    /\ assets_data = <<>>
    /\ scraped_ids = <<>>
    /\ output_path = NaN
    /\ \E existing \in ExistingFiles :
          files = [f \in {reinvest_assets, reinvest_assets_1} |->
                      IF f = reinvest_assets THEN existing ELSE NaN]
    /\ new_df = <<>>
    /\ FlowIdle
    /\ GeopyIdle

\* lines 1015-1041 and 1375-1424: the IDs are fetched from the listing pages or
\* read from the backup file, which may raise; with no ID an empty workbook is
\* written and its path returned
GetAllListingIds ==
    /\ scraper_pc = "start"
    /\ \E got \in BOOLEAN :
        IF ~got
        THEN scraper_pc' = "raised" /\ UNCHANGED <<files, output_path>>
        ELSE IF listing_ids = <<>>
        THEN \E written \in BOOLEAN :
                IF written
                THEN /\ files' = [files EXCEPT ![PathOf(output_path)] = Some(<<>>)]
                     /\ output_path' = Some(PathOf(output_path))
                     /\ scraper_pc' = "returned"
                ELSE scraper_pc' = "raised" /\ UNCHANGED <<files, output_path>>
        ELSE scraper_pc' = "for" /\ UNCHANGED <<files, output_path>>
    /\ UNCHANGED <<entry_point, listing_ids, listing_idx, assets_data, scraped_ids, new_df,
                   flowVars, geopyVars>>

\* lines 1049-1062 and 1427-1445: one pass of the loop; scrape_listing returns
\* a result, returns None or raises, and the ID goes on scraped_ids each time
ScrapeListing ==
    /\ scraper_pc = "for"
    /\ listing_idx <= Len(listing_ids)
    /\ \E result \in {"scraped", "None", "raises"} :
        assets_data' = IF result = "scraped"
                       THEN Append(assets_data, [listing |-> listing_ids[listing_idx]])
                       ELSE assets_data
    /\ scraped_ids' = Append(scraped_ids, listing_ids[listing_idx])
    /\ listing_idx' = listing_idx + 1
    /\ UNCHANGED <<entry_point, scraper_pc, listing_ids, output_path, files, new_df,
                   flowVars, geopyVars>>

\* lines 1064-1069 and 1449-1458, with save_to_excel (1097-1270): after the
\* loop the assets, if any, are saved with scraped_ids as their listing_ids.
\* The existing file is read (a locked one raises, an unreadable one counts as
\* none), the rows are combined and written to output_path or, when that
\* fails, to the first alternative name that is free; when nothing can be
\* written the call raises. scrape_all_listings then goes on to the else
\* clause of its try statement (line 1083), scrape_from_backup_json returns
\* (line 1473); with no assets scrape_from_backup_json goes to the else branch
\* of line 1460.
SaveToExcel ==
    /\ scraper_pc = "for"
    /\ listing_idx > Len(listing_ids)
    /\ IF assets_data = <<>>
       THEN scraper_pc' = "else" /\ UNCHANGED <<output_path, files, new_df>>
       ELSE LET path == PathOf(output_path)
                rows == NewRows(assets_data, scraped_ids)
                after == IF entry_point = "scrape_all_listings" THEN "else" ELSE "returned"
            IN /\ new_df' = rows
               /\ \E io \in {"saved", "cannot_read", "unreadable", "saved_alternative",
                             "cannot_save"} :
                    LET existing == IF io = "unreadable" THEN NaN ELSE files[path]
                        df_out == CombinedRows(existing, rows)
                    IN CASE io = "saved" ->
                              /\ files' = [files EXCEPT ![path] = Some(df_out)]
                              /\ output_path' = Some(path)
                              /\ scraper_pc' = after
                         [] io = "unreadable" ->
                              /\ files[path] # NaN
                              /\ files' = [files EXCEPT ![path] = Some(df_out)]
                              /\ output_path' = Some(path)
                              /\ scraper_pc' = after
                         [] io = "saved_alternative" ->
                              /\ files[reinvest_assets_1] = NaN
                              /\ files' = [files EXCEPT ![reinvest_assets_1] = Some(df_out)]
                              /\ output_path' = Some(reinvest_assets_1)
                              /\ scraper_pc' = after
                         [] io = "cannot_read" ->
                              /\ files[path] # NaN
                              /\ scraper_pc' = "raised"
                              /\ UNCHANGED <<output_path, files>>
                         [] io = "cannot_save" ->
                              /\ scraper_pc' = "raised"
                              /\ UNCHANGED <<output_path, files>>
    /\ UNCHANGED <<entry_point, listing_ids, listing_idx, assets_data, scraped_ids,
                   flowVars, geopyVars>>

\* lines 1083-1095 and 1460-1473: an empty table is written to output_path
\* (the path save_to_excel returned, if it ran) and the path is returned
NoAssetsScraped ==
    /\ scraper_pc = "else"
    /\ \E written \in BOOLEAN :
        IF written
        THEN /\ files' = [files EXCEPT ![PathOf(output_path)] = Some(<<>>)]
             /\ output_path' = Some(PathOf(output_path))
             /\ scraper_pc' = "returned"
        ELSE scraper_pc' = "raised" /\ UNCHANGED <<files, output_path>>
    /\ UNCHANGED <<entry_point, listing_ids, listing_idx, assets_data, scraped_ids, new_df,
                   flowVars, geopyVars>>

NextReinvest ==
    \/ GetAllListingIds
    \/ ScrapeListing
    \/ SaveToExcel
    \/ NoAssetsScraped

\* one call of scrape_all_listings or of scrape_from_backup_json
SpecReinvest == InitReinvest /\ [][NextReinvest]_vars

\* -------------------------------------------------------------- properties
\* the summary cells and the stamp of a row
SummaryOf(row) == [f \in SummaryFields \cup {"enriched_time"} |-> row[f]]

\* the run has not touched row j
Untouched(j) ==
    /\ j \notin skipped \cup searched \cup appended \cup stamped
    /\ df[j] = PrepareRow(excel[j])

\* a call of the current run was refused and the run is past it
Blocked == blocked # NaN

\* C1: once get_by_location has returned Blocked (-1 or None) in a search, the
\* search hands no comparable set to the loop (it ends in an exception), no
\* further remote call is made, no later row is processed, and the run goes on
\* to write the dataset: it can always step until it is done, and then the
\* dataset has been written once and is the DataFrame of the run.
C1_BlockedStopsBatchAndPersists ==
    Blocked =>
        /\ remote_calls = blocked[1]
        /\ pc \in {"except", "finally", "done"}
        /\ exc \in {"TypeError", "ValidationError"}
        /\ \A j \in DOMAIN df : j > index => Untouched(j)
        /\ pc # "done" => ENABLED Next
        /\ pc = "done" => persisted = Some(df) /\ n_persists = 1

\* C1 witness: a search was refused at its second or third call while a later
\* row was still waiting, and the run is over
C1_Witness ==
    /\ Blocked
    /\ blocked[1] >= 2
    /\ pc = "done"
    /\ index < Len(df)
    /\ persisted = Some(df)

\* C2: when the run ends after an exception raised while row `index` was being
\* processed, the saved dataset holds the rows before it as the run completed
\* them, stamps included, and, for that row and every later one, the summary
\* cells and stamp of the input and nothing new.
C2_NoSummaryForFailedSubject ==
    (pc = "done" /\ exc # "none") =>
        \A j \in DOMAIN df :
            /\ j < index => persisted[1][j] = df[j]
            /\ (j < index /\ j \in stamped) => notna(persisted[1][j].enriched_time)
            /\ j >= index => SummaryOf(persisted[1][j]) = SummaryOf(excel[j])

\* C3: whenever the loop is at the head of a row, the dataset has been written
\* and the written dataset holds every row before that one as the run left it.
C3_PersistedAfterEverySubject ==
    (pc = "for" /\ index > 1) =>
        /\ persisted # NaN
        /\ \A j \in 1..(index - 1) : persisted[1][j] = df[j]

\* C4: a run in which an exception was raised writes the dataset and ends by
\* raising to its caller.
C4_ExceptionIsReRaised ==
    (pc = "done" /\ exc # "none") => persisted = Some(df) /\ outcome = "raised"

\* every row of the dataset read by the run carries a stamp
AllStamped == \A j \in DOMAIN excel : notna(excel[j].enriched_time)

\* C5: a run over a dataset whose rows all carry a stamp makes no remote call,
\* searches and stamps no row, appends nothing to the store, and writes a dataset
\* with the summary cells and stamps of the input; a further run on the written
\* dataset does the same and writes the very dataset it read.
C5_AllStampedRunChangesNothing ==
    AllStamped =>
        /\ remote_calls = 0
        /\ searched = {} /\ appended = {} /\ stamped = {}
        /\ store = store_before
        /\ pc = "done" =>
            /\ persisted # NaN
            /\ DOMAIN persisted[1] = DOMAIN excel
            /\ \A j \in DOMAIN excel : SummaryOf(persisted[1][j]) = SummaryOf(excel[j])
            /\ run > 1 => persisted[1] = excel

\* C5 witness: the second of two runs over an all-stamped dataset is over
C5_Witness ==
    /\ AllStamped
    /\ run = 2
    /\ pc = "done"
    /\ skipped = DOMAIN df
    /\ \A j \in DOMAIN excel : excel[j].enriched_time = Some(0)

\* C6: in one run, among the rows that share an idempotency key at most one is
\* searched and at most one is stamped.
C6_OncePerKey ==
    \A j1, j2 \in DOMAIN df :
        (j1 # j2 /\ KeyOf(df[j1]) = KeyOf(df[j2])) =>
            /\ ~(j1 \in searched /\ j2 \in searched)
            /\ ~(j1 \in stamped /\ j2 \in stamped)

\* C6 witness: two rows share a key; the first was searched and stamped, the
\* second skipped
C6_Witness ==
    /\ pc = "done"
    /\ \E j1, j2 \in DOMAIN df :
        /\ j1 < j2
        /\ KeyOf(df[j1]) = KeyOf(df[j2])
        /\ j1 \in searched /\ j1 \in stamped
        /\ j2 \in skipped
        /\ excel[j2].enriched_time = NaN

\* the rows the loop has been through
Visited == skipped \cup searched \cup stamped \cup (IF pc = "stamp" THEN {index} ELSE {})

\* C7: a row the loop has been through was skipped exactly when an earlier
\* handled row had its key or it carried a stamp on input; every other row was
\* searched.
C7_SkipIffSeenOrStamped ==
    \A j \in Visited :
        LET seen == \E j0 \in 1..(j - 1) :
                        j0 \notin skipped /\ KeyOf(df[j0]) = KeyOf(df[j])
            stamp == notna(excel[j].enriched_time)
        IN /\ j \in skipped <=> (seen \/ stamp)
           /\ j \notin skipped => j \in searched

\* the search of row `index` has returned to the loop
SearchReturned == pc \in {"save", "stats", "valuation"}

\* C8: the radii of the calls of one search never decrease; a search that
\* returns has made 1, 2 or 3 calls and returns the radius of its last call,
\* which is default_location_tolerance * 1.5^(calls - 1).
C8_ReturnedRadiusIsLastUsed ==
    /\ \A k \in 1..(Len(radii) - 1) : RatLeq(radii[k], radii[k + 1])
    /\ SearchReturned =>
        /\ Len(radii) \in 1..max_iterations
        /\ actual_location_tolerance = radii[Len(radii)]
        /\ actual_location_tolerance =
              RatPow15(<<default_location_tolerance, 1>>, Len(radii) - 1)

\* C8 witness: a search returned after its third call, at radius 225
C8_Witness ==
    /\ SearchReturned
    /\ Len(radii) = 3
    /\ actual_location_tolerance = <<225, 1>>

\* C9: the row whose search was refused is not stamped, keeps the summary cells
\* it had, and has no comparable set, empty or not, written to the store; the
\* saved dataset shows the same.
C9_BlockedIsNotZeroComparables ==
    Blocked =>
        /\ index \notin stamped
        /\ index \notin appended
        /\ SummaryOf(df[index]) = SummaryOf(excel[index])
        /\ df[index].enriched_time = NaN
        /\ pc = "done" => SummaryOf(persisted[1][index]) = SummaryOf(excel[index])

\* C9 witness: a search was refused at its first call and the run is over
C9_Witness ==
    /\ Blocked
    /\ pc = "done"
    /\ Len(radii) = 1
    /\ index \in searched

\* C10: a search is refused only after the same query (the same rectangle) has
\* been sent 1 + max_retries = 3 times in a row.
C10_BlockedOnlyAfterRetries ==
    Blocked =>
        /\ Len(radii) >= 1 + 2
        /\ radii[Len(radii)] = radii[Len(radii) - 1]
        /\ radii[Len(radii)] = radii[Len(radii) - 2]

\* the last call was answered with status 401 or 403
Refused == response.raises = "none" /\ response.status \in {"401", "403"}

\* C11: a call answered with status 401 or 403 gives the caller None, the
\* refusal, whatever the body of the response (a block page or a payload that
\* would parse to listings): never a list, empty or not, and never another
\* value. The search hands no comparable set to the loop and the row gets no
\* store rows and no stamp.
C11_UnauthorizedIsBlocked ==
    Refused =>
        /\ assets.tag = "None"
        /\ Blocked /\ blocked[1] = remote_calls
        /\ pc \in {"except", "finally", "done"}
        /\ exc \in {"TypeError", "ValidationError"}
        /\ index \notin appended
        /\ index \notin stamped

\* C11 witness: a 403 whose body would parse to five listings ended the run
C11_Witness ==
    /\ Refused
    /\ response.status = "403" /\ response.parses /\ Len(response.data) = 5
    /\ assets.tag = "None"
    /\ pc = "done"

\* C12: every remote call is preceded by a pacing delay, so a remote call is
\* never the step that follows another remote call of the same search: a delay
\* step lies between them.
C12_DelayBeforeEveryCall ==
    [][remote_calls' # remote_calls => i = 0]_vars

\* a call has been made for row `index` and the loop is still at that row
CallMadeForRow ==
    /\ pc \in {"search", "save", "stats", "valuation", "except"}
    /\ Len(radii) > 0

\* C13: a call made with an explicit tolerance asks for the areas from
\* max(0, area - tolerance) to area + tolerance, and never for a negative
\* minimum.
C13_AreaClamp ==
    (CallMadeForRow /\ sqm_tolerance # NaN) =>
        LET area == df[index].sqm[1]
            tolerance == sqm_tolerance[1]
        IN /\ min_area = Some(IF area - tolerance > 0 THEN area - tolerance ELSE 0)
           /\ max_area = Some(area + tolerance)
           /\ min_area[1] >= 0

\* the statistics step of row `index` is over
StatisticsDone == pc \in {"valuation", "stamp"} /\ index \in searched

\* C14: once the statistics step of a searched row is over, the row has a
\* standard deviation and a score exactly when its comparable set has at least
\* two members and their standard deviation is not zero, and a mean, median,
\* minimum and maximum exactly when the set is not empty; and no run over
\* comparables of positive area ends in a division by zero.
C14_StdAndScoreOnlyWhenDefined ==
    /\ exc = "ZeroDivisionError" =>
            \E k \in DOMAIN asset_comparison.compared_assets :
                asset_comparison.compared_assets[k].sqm = 0
    /\ StatisticsDone =>
        LET comps == asset_comparison.compared_assets
            n == Len(comps)
            defined == IF n >= 2 THEN Stdev(assets_price_sqm(comps)) # 0 ELSE FALSE
        IN /\ notna(df[index].comparison_std) <=> defined
           /\ notna(df[index].score) <=> defined
           /\ \A f \in {"comparison_average", "comparison_median",
                        "comparison_min", "comparison_max"} :
                  notna(df[index][f]) <=> n >= 1

\* _get_valuation_for_row has returned for row `index`
Valued == pc = "stamp" /\ HasAssets(asset_comparison.compared_assets)

FloorRankTable(level) ==
    IF level = NaN THEN 25
    ELSE IF level[1] <= -1 THEN -40
    ELSE IF level[1] = 0 THEN -10
    ELSE IF level[1] >= 6 THEN 25
    ELSE (level[1] - 1) * 5

\* the renovation-rank table, in percent
RenovationRankTable(new_state) == IF new_state = Some(TRUE) THEN 20 ELSE 0

\* C17: the valuation uses the floor ranks -0.40 for every level at or below
\* -1, -0.10 for 0, 0 to 0.20 for 1 to 5 and 0.25 for 6 and above or unknown,
\* and the renovation ranks 0.20 for renovated and 0 otherwise: the normalized
\* mean of a single asset is the one these tables give for its level and state.
C17_RankTables ==
    (Valued /\ Len(asset_comparison.compared_assets) = 1) =>
        LET c == asset_comparison.compared_assets[1]
        IN df[index].normalized_mean =
              Some(((c.price \div c.sqm) * 90 * (100 - FloorRankTable(c.level))
                       * (100 - RenovationRankTable(c.new_state))) \div 1000000)

\* C18: a searched row whose comparable set is empty gets no normalized mean,
\* no value and no statistics; no empty set is ever handed to statistics.mean,
\* so the run does not fail on it: the row is stamped and the loop goes on.
C18_EmptySetGivesNoValuation ==
    /\ exc # "StatisticsError"
    /\ (pc \in {"stats", "stamp"} /\ index \in searched
            /\ asset_comparison.compared_assets = <<>>) =>
        /\ exc = "none"
        /\ df[index].normalized_mean = NaN
        /\ df[index].revaluation = NaN
        /\ df[index].n_assets = NaN
    /\ \A j \in searched \cap stamped :
        df[j].n_assets = NaN => df[j].normalized_mean = NaN /\ df[j].revaluation = NaN

\* C18 witness: the search of the first row returned an empty set after three
\* calls, the row was stamped without a value, and the second row has been
\* searched
C18_Witness ==
    /\ 1 \in searched /\ 1 \in stamped
    /\ df[1].n_assets = NaN /\ df[1].revaluation = NaN
    /\ 2 \in searched
    /\ remote_calls >= 4
    /\ exc = "none"

\* s is the beginning of t
IsPrefix(s, t) == Len(s) <= Len(t) /\ \A k \in DOMAIN s : t[k] = s[k]

\* C19: every step leaves the rows of the store in place and unchanged, and a
\* step that changes the store adds one row per comparable of the fetched set.
C19_StoreIsAppendOnly ==
    [][/\ IsPrefix(store, store')
       /\ store' # store =>
            Len(store') = Len(store) + Len(asset_comparison.compared_assets)]_vars

\* C20: a run that fails for a column the workbook lacks (the AssertionError of
\* a missing 'level' or 'new_state') fails before any row is processed: it has
\* made no remote call, searched no row and appended nothing to the store, and
\* it ends raising to its caller.
C20_MissingColumnsFailFast ==
    exc = "AssertionError" =>
        /\ remote_calls = 0
        /\ searched = {}
        /\ store = store_before
        /\ outcome # "returned"

\* C25: a search makes a further call only after a call that returned a list
\* of fewer than 5 comparables and only while it has made fewer than 3 calls,
\* each further call at 1.5 times the radius of the one before; a search that
\* returns has made 1, 2 or 3 calls, returns the list of its last call, and
\* returns it because that list has at least 5 members or the call was the
\* third.
C25_SearchStopRule ==
    /\ \A k \in 1..(Len(radii) - 1) : radii[k + 1] = TimesGrowth(radii[k])
    /\ (pc = "search" /\ Len(radii) >= 1) =>
        /\ i = Len(radii)
        /\ assets.tag = "list"
        /\ Len(assets.assets) < min_comparables
        /\ Len(radii) < max_iterations
    /\ SearchReturned =>
        /\ Len(radii) \in 1..max_iterations
        /\ assets.tag = "list"
        /\ asset_comparison.compared_assets = assets.assets
        /\ Len(assets.assets) >= min_comparables \/ Len(radii) = max_iterations

\* C25 witness: a search returned the five listings of its second call
C25_Witness ==
    /\ SearchReturned
    /\ Len(radii) = 2
    /\ Len(asset_comparison.compared_assets) = 5

\* C26: a call asks for the fallback band 30 to 200 exactly when the run was
\* given no tolerance; with a tolerance, 0 included, it asks for the areas
\* from max(0, area - tolerance) to area + tolerance.
C26_FallbackBandOnlyWithoutTolerance ==
    CallMadeForRow =>
        LET area == df[index].sqm[1] IN
        IF sqm_tolerance = NaN
        THEN min_area = Some(fallback_min_area) /\ max_area = Some(fallback_max_area)
        ELSE /\ min_area = Some(IF area > sqm_tolerance[1]
                                THEN area - sqm_tolerance[1] ELSE 0)
             /\ max_area = Some(area + sqm_tolerance[1])
             /\ (min_area # Some(fallback_min_area) \/ max_area # Some(fallback_max_area))

\* C28: a row is stamped only if a search was run for it.
C28_StampOnlyAfterSearch ==
    stamped \subseteq searched

\* C29: when a run is over, every row whose comparable set was written to the
\* store in that run carries a stamp in the saved dataset.
C29_AppendedRowsAreStamped ==
    pc = "done" =>
        \A j \in appended : notna(persisted[1][j].enriched_time)

\* C27: in a run on the dataset saved by a run that ended without an
\* exception, no remote call is made for a row whose idempotency key the run
\* before had searched.
C27_NoCallForKeySearchedBefore ==
    (run > 1 /\ run_before.exc = "none" /\ CallMadeForRow) =>
        KeyOf(df[index]) \notin run_before.searched

\* C23: once the statistics of a row with a non-empty comparable set are
\* written, its count, mean, median, minimum and maximum are those of the
\* quotients price / area of the comparables (200 and 200 for the unit prices
\* 100, 200, 300), whatever floor and renovation state the comparables carry,
\* and the valuation step leaves them as they are.
C23_StatisticsOfRawUnitPrices ==
    LET comps == asset_comparison.compared_assets
        raw == [k \in DOMAIN comps |-> comps[k].price \div comps[k].sqm]
        row == df[index]
    IN (pc \in {"valuation", "stamp"} /\ comps # <<>>) =>
        /\ row.n_assets = Some(Len(comps))
        /\ row.comparison_average = Some(SumSeq(raw) \div Len(raw))
        /\ row.comparison_min = Some(SeqMin(raw))
        /\ row.comparison_max = Some(SeqMax(raw))
        /\ \E k \in DOMAIN raw :
              /\ Cardinality({j \in DOMAIN raw : raw[j] < raw[k]}) <= Len(raw) \div 2
              /\ Cardinality({j \in DOMAIN raw : raw[j] > raw[k]}) <= Len(raw) \div 2
              /\ Len(raw) % 2 = 1 => row.comparison_median = Some(raw[k])
        /\ Len(raw) = 2 => row.comparison_median = Some((raw[1] + raw[2]) \div 2)
        /\ raw = <<100, 200, 300>> =>
              /\ row.comparison_average = Some(200)
              /\ row.comparison_median = Some(200)

\* C23 witness: a row valued on comparables of unit prices 100, 200, 300 that
\* carry floors and renovation states; its normalized mean is not its mean
C23_Witness ==
    LET comps == asset_comparison.compared_assets IN
    /\ pc = "stamp"
    /\ Len(comps) = 3
    /\ \A k \in DOMAIN comps : notna(comps[k].level) /\ notna(comps[k].new_state)
    /\ df[index].comparison_average = Some(200)
    /\ df[index].comparison_median = Some(200)
    /\ notna(df[index].normalized_mean)
    /\ df[index].normalized_mean # df[index].comparison_average

\* C21: rectangle_from_point returns no rectangle for a radius that is zero
\* or negative.
C21_NoRectangleForNonPositiveRadius ==
    radius_meters <= 0 => rectangle = NaN

C24_SavedAssetsStayInWorkbook ==
    (entry_point = "scrape_all_listings" /\ scraper_pc = "returned" /\ assets_data # <<>>) =>
        /\ files[output_path[1]] # NaN
        /\ \A k \in DOMAIN assets_data :
              \E j \in DOMAIN files[output_path[1]][1] :
                  files[output_path[1]][1][j].listing = assets_data[k].listing

\* C30: every row save_to_excel builds from the assets and the ID list that
\* scrape_all_listings or scrape_from_backup_json hands it has, as its id, the
\* listing its asset was scraped from.
C30_RowsCarryTheirListingId ==
    \A k \in DOMAIN new_df : new_df[k].id = new_df[k].listing

====
